---- MODULE Spec2Model ----
(***************************************************************************)
(* Table action menu and table cell node of the lexical playground         *)
(* (packages/lexical-playground/src/plugins/TableActionMenuPlugin.jsx).    *)
(*                                                                         *)
(* Two specifications share this module:                                   *)
(*   SpecCell  one TableCellNode driven through its own methods;           *)
(*   Spec      the menu container, one menu instance, the document table,  *)
(*             the selection and the editor updates that connect them.     *)
(***************************************************************************)
EXTENDS Integers, Sequences, FiniteSets, TLC

\* ------------------------------------------------------------------------
\* Bounds
\* ------------------------------------------------------------------------
\* largest header state value a run may store (a JS number has no such limit)
MaxHeaderState == 5
\* most cells the table may hold (inserts that would exceed it are not taken)
MaxCells == 6
\* most document mutations the menu commits in one run; once it has committed
\* that many, the menu is not opened again and no grid selection is made
MaxMutations == 1
\* number of node keys the host can hand out
NumKeys == 8

\* ------------------------------------------------------------------------
\* TableCellHeaderStates
\* ------------------------------------------------------------------------
NO_STATUS == 0
ROW == 1
COLUMN == 2
BOTH == 3

TableCellHeaderStates == {NO_STATUS, ROW, COLUMN, BOTH}

\* a string field that was never given a value
Undefined == "undefined"

\* a width that was never given a value
NoWidth == -1

\* JS a & b on non-negative integers
RECURSIVE BitAnd(_, _)
BitAnd(a, b) ==
  IF a = 0 \/ b = 0 THEN 0
  ELSE (a % 2) * (b % 2) + 2 * BitAnd(a \div 2, b \div 2)

\* new TableCellNode(headerState, colSpan, width, backgroundColorStyle,
\*                   borderStyle, key): parameters in the constructor's order
TableCellNodeCtor(headerState, colSpan, width, backgroundColorStyle, borderStyle, key) ==
  [key |-> key,
   headerState |-> headerState,
   colSpan |-> colSpan,
   width |-> width,
   backgroundColorStyle |-> backgroundColorStyle,
   borderStyle |-> borderStyle]

\* $createTableCellNode(headerState, colSpan, backgroundColorStyle, borderStyle, width)
CreateTableCellNode(headerState, colSpan, backgroundColorStyle, borderStyle, width) ==
  TableCellNodeCtor(headerState, colSpan, width, backgroundColorStyle, borderStyle, Undefined)

\* static clone(node): five positional arguments, the fourth is node.__key
\* and the fifth node.__backgroundColorStyle; no sixth (key) argument
Clone(node) ==
  TableCellNodeCtor(node.headerState, node.colSpan, node.width,
                    node.key, node.backgroundColorStyle, Undefined)

\* node.getWritable(): the host clones the latest snapshot with the node
\* class's clone() and files the copy under the node's key
GetWritable(node) == [Clone(node) EXCEPT !.key = node.key]

\* a toggle that adds the value whether or not the bit is set
ToggledHeaderStateAlwaysAdds(headerState, headerStateToToggle) ==
  headerState + headerStateToToggle

\* a toggle that sets the bit and never clears it
ToggledHeaderStateSetOnly(headerState, headerStateToToggle) ==
  IF BitAnd(headerState, headerStateToToggle) = headerStateToToggle
  THEN headerState
  ELSE headerState + headerStateToToggle

\* toggleHeaderStyle(headerStateToToggle) applied to a headerState number
ToggledHeaderState(headerState, headerStateToToggle) ==
  IF BitAnd(headerState, headerStateToToggle) = headerStateToToggle
  THEN headerState - headerStateToToggle
  ELSE headerState + headerStateToToggle

\* toggleHeaderStyle(headerStateToToggle): the writable snapshot it returns
ToggleHeaderStyle(node, headerStateToToggle) ==
  LET self == GetWritable(node) IN
  [self EXCEPT !.headerState = ToggledHeaderState(self.headerState, headerStateToToggle)]

\* the ROW bit and the COLUMN bit of a header state
RowBit(h) == h % 2
ColumnBit(h) == (h \div 2) % 2

\* this.getWritable() of a call made inside an update; isWritable: the
\* receiver is the pending state's own copy (created or cloned earlier in this
\* update) and the host returns it as it is
GetWritableOf(node, isWritable) == IF isWritable THEN node ELSE GetWritable(node)

\* what a method call leaves: the latest snapshot and the value returned
Outcome(self, result) == [self |-> self, result |-> result]

\* toggleHeaderStyle(headerStateToToggle) on a receiver that may be writable
ToggleHeaderStyleOf(node, isWritable, headerStateToToggle) ==
  LET self == GetWritableOf(node, isWritable)
      toggled == [self EXCEPT !.headerState =
                    ToggledHeaderState(self.headerState, headerStateToToggle)]
  IN Outcome(toggled, toggled)

\* setHeaderStyles(headerState): returns this.__headerState
SetHeaderStyles(node, isWritable, headerState) ==
  LET self == [GetWritableOf(node, isWritable) EXCEPT !.headerState = headerState] IN
  Outcome(self, IF isWritable THEN self.headerState ELSE node.headerState)

\* setWidth(width): returns this.__width, the receiver's field
SetWidth(node, isWritable, width) ==
  LET self == [GetWritableOf(node, isWritable) EXCEPT !.width = width] IN
  Outcome(self, IF isWritable THEN self.width ELSE node.width)

\* setBg(backgroundColorStyle): returns this.backgroundColorStyle, a property
\* no code assigns
SetBg(node, isWritable, backgroundColorStyle) ==
  LET self == [GetWritableOf(node, isWritable) EXCEPT
                 !.backgroundColorStyle = backgroundColorStyle] IN
  Outcome(self, Undefined)

\* setBorderStyle(borderStyle): returns this.borderStyle, a property no code
\* assigns
SetBorderStyle(node, isWritable, borderStyle) ==
  LET self == [GetWritableOf(node, isWritable) EXCEPT !.borderStyle = borderStyle] IN
  Outcome(self, Undefined)

VARIABLES
  cellNode,   \* SpecCell: the latest snapshot of the cell under test
  cellCalls   \* SpecCell: the last two method calls, oldest first

VARIABLES
  pureIn,     \* SpecPure: the function under test and its arguments
  pureOut     \* SpecPure: what it returned, once it was applied

pureVars == <<pureIn, pureOut>>

\* no function under test
PureIdle == pureIn = [fn |-> "none"] /\ pureOut = [done |-> FALSE]

VARIABLES
  externals   \* SpecShared: transactions of other code committed so far

sharedVars == <<externals>>

cellVars == <<cellNode, cellCalls, pureVars, sharedVars>>

\* ------------------------------------------------------------------------
\* The document: one table of rows of cells (host framework state)
\* ------------------------------------------------------------------------
VARIABLES
  tableAttached,     \* the table node is part of the document
  tableRows,         \* tableNode.getChildren(): rows, each a sequence of cell keys
  nodeMap,           \* latest committed snapshot of every attached cell, by key
  selection,         \* $getSelection() of the committed editor state
  highlight,         \* the table's selection object has highlighted cells
  elements,          \* editor.getElementByKey: the rendered element of each cell
  mutations          \* document mutations committed by the menu so far

\* TableCellActionMenuContainer
VARIABLES
  tableCellNode,     \* useState: the anchor cell, or NullNode
  prevTableCellDOM,  \* useRef: the anchor cell seen by the last effect run
  isMenuOpen         \* useState

\* TableActionMenu (the instance mounted while isMenuOpen and an anchor exists)
VARIABLES
  menuCellNode,        \* useState(_tableCellNode): the menu's own tableCellNode
  selectionCounts,     \* useState({columns: 1, rows: 1})
  cellBorderTopWidth,  \* useState(''): one of the draft inputs
  openCounts,          \* the shape counts of the selection current when the instance mounted
  listeners,           \* the 'click' listeners the menu's effect has on the window
  last                 \* what the last step did

docVars == <<tableAttached, tableRows, nodeMap, selection, highlight, elements, mutations>>
containerVars == <<tableCellNode, prevTableCellDOM, isMenuOpen>>
menuVars == <<menuCellNode, selectionCounts, cellBorderTopWidth, openCounts, listeners>>
vars == <<docVars, containerVars, menuVars, last, cellVars>>

\* no node: the null of tableCellNode and of a lookup that finds nothing
NullNode == TableCellNodeCtor(NO_STATUS, 0, NoWidth, Undefined, Undefined, "null")

\* the i-th node key
KeyName(i) == "k" \o ToString(i)

Range(f) == {f[i] : i \in DOMAIN f}

\* keys of the cells under the table
RECURSIVE KeysOfRows(_)
KeysOfRows(rows) ==
  IF rows = <<>> THEN {} ELSE Range(Head(rows)) \cup KeysOfRows(Tail(rows))

RECURSIVE CellCount(_)
CellCount(rows) ==
  IF rows = <<>> THEN 0 ELSE Len(Head(rows)) + CellCount(Tail(rows))

\* node.isAttached() in a document with table flag att and rows rows
IsAttachedIn(node, att, rows) == att /\ node.key \in KeysOfRows(rows)

\* $getTableRowIndexFromTableCellNode(cell): index of the cell's row, from 0
RowIndexOf(key, rows) ==
  (CHOOSE i \in 1..Len(rows) : key \in Range(rows[i])) - 1

\* $getTableColumnIndexFromTableCellNode(cell): index in its row, from 0
ColumnIndexOf(key, rows) ==
  LET row == rows[RowIndexOf(key, rows) + 1] IN
  (CHOOSE j \in 1..Len(row) : row[j] = key) - 1

\* the n smallest key numbers not in used, in ascending order
RECURSIVE FreshKeys(_, _)
FreshKeys(n, used) ==
  IF n = 0 THEN <<>>
  ELSE LET k == CHOOSE i \in 1..NumKeys :
                   /\ KeyName(i) \notin used
                   /\ \A j \in 1..(i - 1) : KeyName(j) \in used
       IN <<KeyName(k)>> \o FreshKeys(n - 1, used \cup {KeyName(k)})

\* keys a new node must not take: attached cells and cells still referenced
UsedKeys ==
  KeysOfRows(tableRows) \cup {tableCellNode.key, prevTableCellDOM.key, menuCellNode.key}

EnoughKeys(n) == Cardinality({i \in 1..NumKeys : KeyName(i) \notin UsedKeys}) >= n

\* s[from..to] of a sequence, empty when from > to
Slice(s, from, to) == [i \in 1..(to - from + 1) |-> s[from + i - 1]]

\* $insertTableRow(tableNode, targetIndex, shouldInsertAfter, rowCount, grid):
\* rowCount new rows next to row targetIndex, each as long as that row;
\* keys is the sequence of keys of the new cells
InsertTableRow(rows, targetIndex, shouldInsertAfter, rowCount, keys) ==
  LET width == Len(rows[targetIndex + 1])
      at == IF shouldInsertAfter THEN targetIndex + 1 ELSE targetIndex
      newRows == [r \in 1..rowCount |-> Slice(keys, (r - 1) * width + 1, r * width)]
  IN Slice(rows, 1, at) \o newRows \o Slice(rows, at + 1, Len(rows))

\* $insertTableColumn(tableNode, targetIndex, shouldInsertAfter, columnCount):
\* columnCount new cells in every row next to column targetIndex
InsertTableColumn(rows, targetIndex, shouldInsertAfter, columnCount, keys) ==
  LET at == IF shouldInsertAfter THEN targetIndex + 1 ELSE targetIndex IN
  [r \in 1..Len(rows) |->
     Slice(rows[r], 1, at)
       \o Slice(keys, (r - 1) * columnCount + 1, r * columnCount)
       \o Slice(rows[r], at + 1, Len(rows[r]))]

\* $removeTableRowAtIndex(tableNode, indexToDelete)
RemoveTableRowAtIndex(rows, index) ==
  Slice(rows, 1, index) \o Slice(rows, index + 2, Len(rows))

\* $deleteTableColumn(tableNode, targetIndex): drops that cell of every row
DeleteTableColumn(rows, index) ==
  [r \in 1..Len(rows) |->
     IF index < Len(rows[r])
     THEN Slice(rows[r], 1, index) \o Slice(rows[r], index + 2, Len(rows[r]))
     ELSE rows[r]]

\* the node map after the document's rows became rows: detached cells are
\* dropped, new cells are fresh $createTableCellNode(NO_STATUS) nodes
NodeMapFor(rows, nm) ==
  [k \in KeysOfRows(rows) |->
     IF k \in DOMAIN nm THEN nm[k]
     ELSE [CreateTableCellNode(NO_STATUS, 1, Undefined, Undefined, NoWidth) EXCEPT !.key = k]]

\* ------------------------------------------------------------------------
\* Rendered elements
\* ------------------------------------------------------------------------
\* JS truthiness of a string field and of a width
TruthyString(v) == v # Undefined /\ v # ""
TruthyWidth(w) == w # NoWidth /\ w # 0

\* a hasHeader that looks at the ROW bit only
HasHeaderRowOnly(node) == BitAnd(node.headerState, ROW) = ROW

\* hasHeader(): node is the latest snapshot
HasHeader(node) == node.headerState # NO_STATUS

\* getTag()
GetTag(node) == IF HasHeader(node) THEN "th" ELSE "td"

\* createDOM(config): the element's tag, attributes and inline style; the
\* background test reads this.__bg, a field no code path assigns
CreateDOM(node) ==
  [tag |-> GetTag(node),
   colspan |-> "",
   width |-> IF TruthyWidth(node.width) THEN ToString(node.width) \o "px" ELSE "",
   backgroundColor |-> "",
   border |-> IF TruthyString(node.borderStyle) THEN node.borderStyle ELSE "",
   borderTop |-> "",
   borderBottom |-> "",
   borderLeft |-> "",
   borderRight |-> "",
   borderRadius |-> ""]

\* an updateDOM that compares every field of the two snapshots
UpdateDOMAnyField(prevNode, node) == prevNode # node

\* updateDOM(prevNode): the element has to be created anew
UpdateDOM(prevNode, node) ==
  prevNode.headerState # node.headerState \/ prevNode.width # node.width

\* the elements after the host reconciled a commit that turned node map nm
\* into nm2: kept where the cell stays and updateDOM says so, created otherwise
Reconcile(nm, nm2, els) ==
  [k \in DOMAIN nm2 |->
     IF k \in DOMAIN nm /\ k \in DOMAIN els /\ ~UpdateDOM(nm[k], nm2[k])
     THEN els[k]
     ELSE CreateDOM(nm2[k])]

\* ------------------------------------------------------------------------
\* Selections
\* ------------------------------------------------------------------------
Selection(type, key, inRoot, fromX, toX, fromY, toY) ==
  [type |-> type, key |-> key, inRoot |-> inRoot,
   fromX |-> fromX, toX |-> toX, fromY |-> fromY, toY |-> toY]

NullSelection == Selection("null", "none", FALSE, 0, 0, 0, 0)

\* a range selection whose anchor is in cell key ("none": not in a table cell);
\* inRoot: the root element exists and contains the native selection's anchor
\* (when it does not, moveMenu never looks at the anchor, and "none" stands
\* for every anchor)
RangeSelection(key, inRoot) == Selection("range", key, inRoot, 0, 0, 0, 0)

\* a grid selection with shape (fromX, toX, fromY, toY)
GridSelection(fromX, toX, fromY, toY) ==
  Selection("grid", "none", TRUE, fromX, toX, fromY, toY)

IsGridSelection(sel) == sel.type = "grid"
IsRangeSelection(sel) == sel.type = "range"

\* the selections a document with these rows can have
SelectionsOf(att, rows) ==
  {NullSelection}
    \cup {RangeSelection("none", b) : b \in BOOLEAN}
    \cup (IF att
          THEN {RangeSelection(k, TRUE) : k \in KeysOfRows(rows)}
          ELSE {})
    \cup (IF att /\ rows # <<>>
          THEN {g \in {GridSelection(fx, tx, fy, ty) :
                        fx \in 0..(Len(rows[1]) - 1), tx \in 0..(Len(rows[1]) - 1),
                        fy \in 0..(Len(rows) - 1), ty \in 0..(Len(rows) - 1)} :
                  /\ g.fromX <= g.toX
                  /\ g.fromY <= g.toY
                  /\ g.toX - g.fromX + g.toY - g.fromY > 0}
          ELSE {})

\* ------------------------------------------------------------------------
\* TableCellActionMenuContainer
\* ------------------------------------------------------------------------
\* editor.getElementByKey(key) finds an element: the reconciler keeps one
\* for every attached node of the committed document
HasElement(key, att, rows) == att /\ key \in KeysOfRows(rows)

\* $getTableCellNodeFromLexicalNode(selection.anchor.getNode())
CellNodeFromSelection(sel, nm) ==
  IF sel.key \in DOMAIN nm THEN nm[sel.key] ELSE NullNode

\* moveMenu reaches its last branch, the only one that reads activeElement
ReadsActiveElement(sel) ==
  sel.type # "null" /\ ~(IsRangeSelection(sel) /\ sel.inRoot)

\* a moveMenu that hides the button for every selection that is not a range
\* selection inside the root
MoveMenuHidesOtherwise(sel, activeElement, current, att, rows, nm) ==
  IF sel.type = "null" THEN NullNode
  ELSE IF IsRangeSelection(sel) /\ sel.inRoot
  THEN LET cell == CellNodeFromSelection(sel, nm) IN
       IF cell = NullNode THEN NullNode
       ELSE IF ~HasElement(cell.key, att, rows) THEN NullNode
       ELSE cell
  ELSE NullNode

\* moveMenu(): the value tableCellNode has after it ran against selection sel;
\* activeElement: document.activeElement is not null; current: the value of
\* tableCellNode before.  menuButtonRef.current is the container's own div,
\* set from the first render on, so "menu == null" does not occur.
MoveMenu(sel, activeElement, current, att, rows, nm) ==
  IF sel.type = "null" THEN NullNode
  ELSE IF IsRangeSelection(sel) /\ sel.inRoot
  THEN LET cell == CellNodeFromSelection(sel, nm) IN
       IF cell = NullNode THEN NullNode
       ELSE IF ~HasElement(cell.key, att, rows) THEN NullNode
       ELSE cell
  ELSE IF ~activeElement THEN NullNode
  ELSE current

\* an effect that leaves the menu as it is when the anchor cell changed
ContainerEffectKeepsOpen(prev, cell, open) == open

\* an effect that flips the flag when the anchor cell changed
ContainerEffectFlips(prev, cell, open) == IF prev # cell THEN ~open ELSE open

\* an effect that opens the menu when the anchor cell changed
ContainerEffectOpens(prev, cell, open) == IF prev # cell THEN TRUE ELSE open

\* the prevTableCellDOM effect: isMenuOpen after it ran with anchor cell
ContainerEffect(prev, cell, open) == IF prev # cell THEN FALSE ELSE open

\* ------------------------------------------------------------------------
\* TableActionMenu
\* ------------------------------------------------------------------------
DefaultCounts == [columns |-> 1, rows |-> 1]

\* the counts of a selection's shape
ShapeCounts(sel) ==
  [columns |-> sel.toX - sel.fromX + 1, rows |-> sel.toY - sel.fromY + 1]

\* the selectionCounts effect, run once when the instance mounts
SelectionCountsAtMount(sel) ==
  IF IsGridSelection(sel) THEN ShapeCounts(sel) ELSE DefaultCounts

\* counts that follow the selection on every render
SelectionCountsLive(counts, sel) == SelectionCountsAtMount(sel)

\* selectionCounts of an instance that stays mounted while the committed
\* selection is sel: the effect's dependency list is [editor], it does not rerun
SelectionCountsKept(counts, sel) == counts

\* the menu instance exists
MenuMounted == tableCellNode # NullNode /\ isMenuOpen

\* an insert index taken from the anchor cell's row whatever the selection is
InsertRowIndexFromCell(sel, shouldInsertAfter, cell, rows) ==
  RowIndexOf(cell.key, rows)

\* tableRowIndex of insertTableRowAtSelection
InsertRowIndex(sel, shouldInsertAfter, cell, rows) ==
  IF IsGridSelection(sel)
  THEN IF shouldInsertAfter THEN sel.toY ELSE sel.fromY
  ELSE RowIndexOf(cell.key, rows)

\* tableColumnIndex of insertTableColumnAtSelection
InsertColumnIndex(sel, shouldInsertAfter, cell, rows) ==
  IF IsGridSelection(sel)
  THEN IF shouldInsertAfter THEN sel.toX ELSE sel.fromX
  ELSE ColumnIndexOf(cell.key, rows)

\* an insert that always asks for one row or column
InsertCountOne(counts, axis) == 1

\* the count insertTableRowAtSelection ("rows") and
\* insertTableColumnAtSelection ("columns") pass to the host
InsertCount(counts, axis) == IF axis = "rows" THEN counts.rows ELSE counts.columns

\* what a step did: the operation, whether it threw, the index, count and
\* shouldInsertAfter handed to the host insert, the index of the menu's cell in
\* its row or column, whether a grid selection was current, the activeElement
\* input, whether clearHighlight ran, whether the menu was open before,
\* whether tableCellNode changed and the message of the error thrown
Step(op) ==
  [op |-> op, err |-> FALSE, msg |-> "", index |-> -1, count |-> 0, after |-> FALSE,
   cellIndex |-> -1, grid |-> FALSE, active |-> FALSE, cleared |-> FALSE,
   wasOpen |-> isMenuOpen, cellChanged |-> FALSE, updateCalls |-> 0, commits |-> 0]

InsertOps == {"insertRow", "insertColumn"}
MenuOps == InsertOps \cup {"deleteRow", "deleteColumn", "deleteTable",
                           "toggleRowHeader", "toggleColumnHeader", "styleCell",
                           "mergeRightCell"}

\* window.addEventListener('click', handleClickOutside) when the effect runs
AddEventListener(n) == n + 1

\* a cleanup that leaves the listener on the window
RemoveEventListenerLeaks(n) == n

\* the effect's cleanup: window.removeEventListener('click', handleClickOutside)
RemoveEventListener(n) == n - 1

\* the menu instance after a render in which the container holds cell and open
\* and the committed selection is sel
RenderMenu(cell, open, sel) ==
  IF cell # NullNode /\ open
  THEN IF MenuMounted
       THEN /\ selectionCounts' = SelectionCountsKept(selectionCounts, sel)
            /\ UNCHANGED <<menuCellNode, cellBorderTopWidth, openCounts, listeners>>
       ELSE /\ menuCellNode' = cell
            /\ selectionCounts' = SelectionCountsAtMount(sel)
            /\ cellBorderTopWidth' = ""
            /\ openCounts' = IF IsGridSelection(sel) THEN ShapeCounts(sel) ELSE DefaultCounts
            /\ listeners' = AddEventListener(listeners)
  ELSE /\ menuCellNode' = NullNode
       /\ selectionCounts' = DefaultCounts
       /\ cellBorderTopWidth' = ""
       /\ openCounts' = DefaultCounts
       /\ listeners' = IF MenuMounted THEN RemoveEventListener(listeners) ELSE listeners

\* the update listener and the effects after an update committed a document
\* (att, rows, nm) with selection sel, the handler having left isMenuOpen = open
AfterUpdate(sel, activeElement, open, att, rows, nm) ==
  LET cell == MoveMenu(sel, activeElement, tableCellNode, att, rows, nm) IN
  /\ tableCellNode' = cell
  /\ prevTableCellDOM' = cell
  /\ isMenuOpen' = ContainerEffect(prevTableCellDOM, cell, open)
  /\ RenderMenu(cell, ContainerEffect(prevTableCellDOM, cell, open), sel)

\* ------------------------------------------------------------------------
\* Spec: initial state and environment steps
\* ------------------------------------------------------------------------
InitRows == <<<<KeyName(1), KeyName(2)>>, <<KeyName(3), KeyName(4)>>>>

\* a table whose second row is shorter than its first (pasted or imported
\* content: nothing makes the rows of a table equally long)
RaggedRows == <<<<KeyName(1), KeyName(2)>>, <<KeyName(3)>>>>

InitTables == {InitRows, RaggedRows}

\* the cells of a table inserted with headers: ROW on the first row, COLUMN
\* on the first column, both on the corner cell
InitNodeMap(rows) ==
  [k \in KeysOfRows(rows) |->
     [CreateTableCellNode(
        (IF RowIndexOf(k, rows) = 0 THEN ROW ELSE NO_STATUS)
          + (IF ColumnIndexOf(k, rows) = 0 THEN COLUMN ELSE NO_STATUS),
        1, Undefined, Undefined, NoWidth) EXCEPT !.key = k]]

MenuInit ==
  /\ tableAttached = TRUE
  /\ tableRows \in InitTables
  /\ nodeMap = InitNodeMap(tableRows)
  /\ selection = NullSelection
  /\ highlight = FALSE
  /\ elements = Reconcile(<<>>, InitNodeMap(tableRows), <<>>)
  /\ mutations = 0
  /\ tableCellNode = NullNode
  /\ prevTableCellDOM = NullNode
  /\ isMenuOpen = FALSE
  /\ menuCellNode = NullNode
  /\ selectionCounts = DefaultCounts
  /\ cellBorderTopWidth = ""
  /\ openCounts = DefaultCounts
  /\ listeners = 0
  /\ last = Step("init")

Init ==
  /\ cellNode = [CreateTableCellNode(NO_STATUS, 1, Undefined, Undefined, NoWidth) EXCEPT !.key = "c1"]
  /\ cellCalls = <<>>
  /\ PureIdle
  /\ externals = 0
  /\ MenuInit

\* an editor update that only moves the selection (caret moved, selection
\* extended over cells, focus lost), then the update listener
SelectionChange ==
  \E sel \in SelectionsOf(tableAttached, tableRows), activeElement \in BOOLEAN :
    /\ sel # selection
    /\ mutations < MaxMutations \/ ~IsGridSelection(sel)
    /\ ReadsActiveElement(sel) \/ activeElement
    /\ selection' = sel
    /\ highlight' = IsGridSelection(sel)
    /\ UNCHANGED <<tableAttached, tableRows, nodeMap, elements, mutations>>
    /\ AfterUpdate(sel, activeElement, isMenuOpen, tableAttached, tableRows, nodeMap)
    /\ last' = [Step("selectionChange") EXCEPT
                  !.active = activeElement,
                  !.grid = IsGridSelection(sel),
                  !.cellChanged =
                     MoveMenu(sel, activeElement, tableCellNode, tableAttached,
                              tableRows, nodeMap) # tableCellNode]
    /\ UNCHANGED cellVars

\* onClick of the trigger button
ClickTrigger ==
  /\ tableCellNode # NullNode
  /\ isMenuOpen \/ mutations < MaxMutations
  /\ isMenuOpen' = ~isMenuOpen
  /\ RenderMenu(tableCellNode, ~isMenuOpen, selection)
  /\ last' = Step("clickTrigger")
  /\ UNCHANGED <<docVars, tableCellNode, prevTableCellDOM, cellVars>>

\* a listener that never closes the menu
HandleClickOutsideNeverCloses(dropDownRef, contextRef, inDropDown, inContext, open) == open

\* handleClickOutside(event): isMenuOpen after the window's click listener ran;
\* dropDownRef / contextRef: the ref is not null; inDropDown / inContext: that
\* element contains event.target
HandleClickOutside(dropDownRef, contextRef, inDropDown, inContext, open) ==
  IF dropDownRef /\ contextRef /\ ~inDropDown /\ ~inContext THEN FALSE ELSE open

\* a click that reaches the window with a target outside the trigger button and
\* outside the dropdown; both refs are set while the instance is mounted
ClickOutside ==
  /\ MenuMounted
  /\ isMenuOpen' = HandleClickOutside(TRUE, TRUE, FALSE, FALSE, isMenuOpen)
  /\ RenderMenu(tableCellNode, HandleClickOutside(TRUE, TRUE, FALSE, FALSE, isMenuOpen),
                selection)
  /\ last' = Step("clickOutside")
  /\ UNCHANGED <<docVars, tableCellNode, prevTableCellDOM, cellVars>>

\* a click inside the dropdown that hits no button: the dropdown's onClick calls
\* e.stopPropagation(), the window's listener does not run
ClickDropDown ==
  /\ MenuMounted
  /\ last' = Step("clickDropDown")
  /\ UNCHANGED <<docVars, containerVars, menuVars, cellVars>>

\* what the user types into the width input of the top border
DraftWidths == {"", "2"}

\* onChange of the top border width input
EditDraft ==
  /\ MenuMounted
  /\ \E w \in DraftWidths :
       /\ w # cellBorderTopWidth
       /\ cellBorderTopWidth' = w
  /\ last' = Step("editDraft")
  /\ UNCHANGED <<docVars, containerVars, menuCellNode, selectionCounts,
                 openCounts, listeners, cellVars>>

\* ------------------------------------------------------------------------
\* Menu actions
\* ------------------------------------------------------------------------
\* onClose of the container: () => setIsMenuOpen(false)
OnClose(open) == FALSE

\* an action that calls editor.update once, whatever it reaches
EditorUpdateCallsOuterOnly(reachedClear) == 1

\* the editor.update calls of one menu action: its own and, when its update
\* function reaches clearTableSelection(), the one made there
EditorUpdateCalls(reachedClear) == IF reachedClear THEN 2 ELSE 1

\* the commits the host makes for one menu action: a nested update runs in
\* the transaction of the update that called it, a throwing one commits nothing
Commits(threw) == IF threw THEN 0 ELSE 1

\* a menu action whose update function threw: the host drops the pending
\* state, nothing is committed and onClose() was not reached
AbortMenuAction(info, msg) ==
  /\ last' = [info EXCEPT !.err = TRUE, !.msg = msg,
                          !.updateCalls = EditorUpdateCalls(FALSE),
                          !.commits = Commits(TRUE)]
  /\ UNCHANGED <<docVars, containerVars, menuVars, cellVars>>

\* the end of a menu action whose update function left the pending document
\* (att, rows, nm) and the elements els: clearTableSelection() (a nested update, run after the
\* outer function), onClose(), the commit and the update listener.
\* clearTableSelection clears the highlight only if the menu's cell is still
\* attached; its "Expected to find tableElement in DOM" cannot fire here, an
\* attached cell has an attached table and that table has an element.
FinishMenuAction(info, att, rows, nm, els) ==
  LET cellAttached == IsAttachedIn(menuCellNode, att, rows) IN
  /\ tableAttached' = att
  /\ tableRows' = rows
  /\ nodeMap' = nm
  /\ elements' = Reconcile(nodeMap, nm, els)
  /\ selection' = NullSelection
  /\ highlight' = IF cellAttached THEN FALSE ELSE (highlight /\ att)
  /\ mutations' = mutations + 1
  /\ AfterUpdate(NullSelection, TRUE, OnClose(isMenuOpen), att, rows, nm)
  /\ last' = [info EXCEPT !.cleared = cellAttached,
                          !.cellChanged = tableCellNode # NullNode,
                          !.updateCalls = EditorUpdateCalls(TRUE),
                          !.commits = Commits(FALSE)]
  /\ UNCHANGED cellVars

\* the messages of the errors the actions throw
OutOfRowMessage == "Expected table cell to be inside of table row."
NoTableMessage == "Expected table cell to be inside of table."
NullElementMessage == "TypeError"
HostRangeMessage == "Table target index out of range"

\* a menu button can be clicked
MenuActionEnabled == MenuMounted /\ mutations < MaxMutations

\* $getTableNodeFromLexicalNodeOrThrow(tableCellNode) throws
NoTableFor(cell) == ~IsAttachedIn(cell, tableAttached, tableRows)

\* insertTableRowAtSelection(shouldInsertAfter)
InsertTableRowAtSelection ==
  \E shouldInsertAfter \in BOOLEAN :
    /\ MenuActionEnabled
    /\ LET info0 == [Step("insertRow") EXCEPT !.after = shouldInsertAfter,
                                            !.grid = IsGridSelection(selection)]
       IN
       IF NoTableFor(menuCellNode) THEN AbortMenuAction(info0, NoTableMessage)
       ELSE
         LET index == InsertRowIndex(selection, shouldInsertAfter, menuCellNode, tableRows)
             count == InsertCount(selectionCounts, "rows")
             info == [info0 EXCEPT !.index = index, !.count = count,
                                   !.cellIndex = RowIndexOf(menuCellNode.key, tableRows)]
         IN
         IF index < 0 \/ index >= Len(tableRows) THEN AbortMenuAction(info, HostRangeMessage)
         ELSE
           LET n == count * Len(tableRows[index + 1])
               rows2 == InsertTableRow(tableRows, index, shouldInsertAfter, count,
                                       FreshKeys(n, UsedKeys))
           IN
           /\ CellCount(tableRows) + n <= MaxCells
           /\ EnoughKeys(n)
           /\ FinishMenuAction(info, tableAttached, rows2, NodeMapFor(rows2, nodeMap), elements)

\* insertTableColumnAtSelection(shouldInsertAfter)
InsertTableColumnAtSelection ==
  \E shouldInsertAfter \in BOOLEAN :
    /\ MenuActionEnabled
    /\ LET info0 == [Step("insertColumn") EXCEPT !.after = shouldInsertAfter,
                                               !.grid = IsGridSelection(selection)]
       IN
       IF NoTableFor(menuCellNode) THEN AbortMenuAction(info0, NoTableMessage)
       ELSE
         LET index == InsertColumnIndex(selection, shouldInsertAfter, menuCellNode, tableRows)
             count == InsertCount(selectionCounts, "columns")
             info == [info0 EXCEPT !.index = index, !.count = count,
                                   !.cellIndex = ColumnIndexOf(menuCellNode.key, tableRows)]
         IN
         IF \E r \in 1..Len(tableRows) : index < 0 \/ index >= Len(tableRows[r])
         THEN AbortMenuAction(info, HostRangeMessage)
         ELSE
           LET n == count * Len(tableRows)
               rows2 == InsertTableColumn(tableRows, index, shouldInsertAfter, count,
                                          FreshKeys(n, UsedKeys))
           IN
           /\ CellCount(tableRows) + n <= MaxCells
           /\ EnoughKeys(n)
           /\ FinishMenuAction(info, tableAttached, rows2, NodeMapFor(rows2, nodeMap), elements)

\* deleteTableRowAtSelection()
DeleteTableRowAtSelection ==
  /\ MenuActionEnabled
  /\ LET info0 == [Step("deleteRow") EXCEPT !.grid = IsGridSelection(selection)] IN
     IF NoTableFor(menuCellNode) THEN AbortMenuAction(info0, NoTableMessage)
     ELSE
       LET index == RowIndexOf(menuCellNode.key, tableRows)
           rows2 == RemoveTableRowAtIndex(tableRows, index)
       IN FinishMenuAction([info0 EXCEPT !.index = index], tableAttached, rows2,
                           NodeMapFor(rows2, nodeMap), elements)

\* deleteTableAtSelection()
DeleteTableAtSelection ==
  /\ MenuActionEnabled
  /\ LET info0 == [Step("deleteTable") EXCEPT !.grid = IsGridSelection(selection)] IN
     IF NoTableFor(menuCellNode) THEN AbortMenuAction(info0, NoTableMessage)
     ELSE FinishMenuAction(info0, FALSE, <<>>, NodeMapFor(<<>>, nodeMap), elements)

\* deleteTableColumnAtSelection()
DeleteTableColumnAtSelection ==
  /\ MenuActionEnabled
  /\ LET info0 == [Step("deleteColumn") EXCEPT !.grid = IsGridSelection(selection)] IN
     IF NoTableFor(menuCellNode) THEN AbortMenuAction(info0, NoTableMessage)
     ELSE
       LET index == ColumnIndexOf(menuCellNode.key, tableRows)
           rows2 == DeleteTableColumn(tableRows, index)
       IN FinishMenuAction([info0 EXCEPT !.index = index], tableAttached, rows2,
                           NodeMapFor(rows2, nodeMap), elements)

\* a row toggle that also toggles the rows below the anchor cell's row
ToggleRowCellsAndBelow(rows, index, nm) ==
  [k \in DOMAIN nm |->
     IF \E r \in (index + 1)..Len(rows) : k \in Range(rows[r])
     THEN ToggleHeaderStyle(nm[k], ROW)
     ELSE nm[k]]

\* tableRow.getChildren().forEach(toggleHeaderStyle(ROW)) on row index: the
\* pending node map
ToggleRowCells(rows, index, nm) ==
  [k \in DOMAIN nm |->
     IF k \in Range(rows[index + 1])
     THEN ToggleHeaderStyle(nm[k], ROW)
     ELSE nm[k]]

\* toggleTableRowIsHeader(): every child of a table is a row and every child
\* of a row a cell in this document, "Expected table row/cell" cannot fire
ToggleTableRowIsHeader ==
  /\ MenuActionEnabled
  /\ LET info0 == [Step("toggleRowHeader") EXCEPT !.grid = IsGridSelection(selection)] IN
     IF NoTableFor(menuCellNode) THEN AbortMenuAction(info0, NoTableMessage)
     ELSE
       LET index == RowIndexOf(menuCellNode.key, tableRows)
           info == [info0 EXCEPT !.index = index]
       IN
       IF index >= Len(tableRows) \/ index < 0 THEN AbortMenuAction(info, OutOfRowMessage)
       ELSE FinishMenuAction(info, tableAttached, tableRows,
                             ToggleRowCells(tableRows, index, nodeMap), elements)

\* a loop that passes over the rows too short for the index
ToggleColumnSkipsShortRows(r, rows, index, nm) ==
  [err |-> FALSE,
   nm |-> [k \in DOMAIN nm |->
             IF \E q \in r..Len(rows) :
                  index >= 0 /\ index < Len(rows[q]) /\ rows[q][index + 1] = k
             THEN ToggleHeaderStyle(nm[k], COLUMN)
             ELSE nm[k]]]

\* a loop that stops at the first row too short for the index and returns
\* normally
ToggleColumnStopsAtShortRow(r, rows, index, nm) ==
  LET short == {q \in r..Len(rows) : index >= Len(rows[q]) \/ index < 0}
      stop == IF short = {} THEN Len(rows) + 1
              ELSE CHOOSE q \in short : \A q2 \in short : q <= q2
  IN [err |-> FALSE,
      nm |-> [k \in DOMAIN nm |->
                IF \E q \in r..(stop - 1) : rows[q][index + 1] = k
                THEN ToggleHeaderStyle(nm[k], COLUMN)
                ELSE nm[k]]]

\* the for loop of toggleTableColumnIsHeader from row r (from 1) on, the
\* pending node map being nm: whether it threw and the pending node map it left
RECURSIVE ToggleColumnCells(_, _, _, _)
ToggleColumnCells(r, rows, index, nm) ==
  IF r > Len(rows) THEN [err |-> FALSE, nm |-> nm]
  ELSE IF index >= Len(rows[r]) \/ index < 0 THEN [err |-> TRUE, nm |-> nm]
  ELSE ToggleColumnCells(r + 1, rows, index,
                         [nm EXCEPT ![rows[r][index + 1]] = ToggleHeaderStyle(@, COLUMN)])

\* toggleTableColumnIsHeader(): an update function that threw leaves its
\* pending node map to the host, which drops it
ToggleTableColumnIsHeader ==
  /\ MenuActionEnabled
  /\ LET info0 == [Step("toggleColumnHeader") EXCEPT !.grid = IsGridSelection(selection)] IN
     IF NoTableFor(menuCellNode) THEN AbortMenuAction(info0, NoTableMessage)
     ELSE
       LET index == ColumnIndexOf(menuCellNode.key, tableRows)
           info == [info0 EXCEPT !.index = index]
           done == ToggleColumnCells(1, tableRows, index, nodeMap)
       IN
       IF done.err THEN AbortMenuAction(info, OutOfRowMessage)
       ELSE FinishMenuAction(info, tableAttached, tableRows, done.nm, elements)

\* the border shorthand the menu's effects compose: `${width}px ${style} ${color}`
BorderCellStyle(width, style, color) == width \o "px " \o style \o " " \o color

\* the composite drafts; every input but the top width keeps its initial ''
TopBorderCellStyle == BorderCellStyle(cellBorderTopWidth, "", "")
BottomBorderCellStyle == BorderCellStyle("", "", "")
RightBorderCellStyle == BorderCellStyle("", "", "")
LeftBorderCellStyle == BorderCellStyle("", "", "")

\* element.style.borderTop = value (and the like) takes effect: the browser
\* drops an assignment whose value does not parse, a bare 'px' is no length
CssBorderAccepted(value) ==
  value \in {BorderCellStyle(w, "", "") : w \in DraftWidths \ {""}}

\* the style property after  element.style.property = value
StyleAssigned(old, value) == IF CssBorderAccepted(value) THEN value ELSE old

\* style writes that also set the colspan attribute
StyledElementSetsColspan(el, top, bottom, right, left) == [el EXCEPT !.colspan = "2"]

\* the style writes of styleCellOptions on element el; a composite string is
\* truthy unless it is ''
StyledElement(el, top, bottom, right, left) ==
  LET e1 == IF top # ""
            THEN [el EXCEPT !.borderTop = StyleAssigned(@, top), !.borderRadius = "10px"]
            ELSE el
      e2 == IF bottom # "" THEN [e1 EXCEPT !.borderBottom = StyleAssigned(@, bottom)] ELSE e1
      e3 == IF right # "" THEN [e2 EXCEPT !.borderRight = StyleAssigned(@, right)] ELSE e2
  IN IF left # "" THEN [e3 EXCEPT !.borderLeft = StyleAssigned(@, left)] ELSE e3

\* a null elemKey that is passed over without an error
NullElementIgnored(found) == FALSE

\* elemKey.style / elemKey.setAttribute throws: elemKey is null when
\* getElementByKey found no element
NullElementThrows(found) == ~found

\* styleCellOptions(...): elemKey.style of a null elemKey throws a TypeError
StyleCellOptions ==
  /\ MenuActionEnabled
  /\ LET info0 == [Step("styleCell") EXCEPT !.grid = IsGridSelection(selection)] IN
     IF NullElementThrows(HasElement(menuCellNode.key, tableAttached, tableRows))
     THEN AbortMenuAction(info0, NullElementMessage)
     ELSE
       LET els2 == [elements EXCEPT ![menuCellNode.key] =
                      StyledElement(@, TopBorderCellStyle, BottomBorderCellStyle,
                                    RightBorderCellStyle, LeftBorderCellStyle)]
       IN FinishMenuAction(info0, tableAttached, tableRows, nodeMap, els2)

\* mergeRightCell(): elemKey.setAttribute of a null elemKey throws a TypeError
MergeRightCell ==
  /\ MenuActionEnabled
  /\ LET info0 == [Step("mergeRightCell") EXCEPT !.grid = IsGridSelection(selection)] IN
     IF NullElementThrows(HasElement(menuCellNode.key, tableAttached, tableRows))
     THEN AbortMenuAction(info0, NullElementMessage)
     ELSE
       LET els2 == [elements EXCEPT ![menuCellNode.key].colspan = "2"]
       IN FinishMenuAction(info0, tableAttached, tableRows, nodeMap, els2)

Next ==
  \/ SelectionChange
  \/ ClickTrigger
  \/ ClickOutside
  \/ ClickDropDown
  \/ EditDraft
  \/ InsertTableRowAtSelection
  \/ InsertTableColumnAtSelection
  \/ DeleteTableRowAtSelection
  \/ DeleteTableAtSelection
  \/ DeleteTableColumnAtSelection
  \/ ToggleTableRowIsHeader
  \/ ToggleTableColumnIsHeader
  \/ MergeRightCell
  \/ StyleCellOptions

Spec == Init /\ [][Next]_vars

\* ------------------------------------------------------------------------
\* Properties of the menu (Spec)
\* ------------------------------------------------------------------------
UpdateOps == MenuOps \cup {"selectionChange"}

\* C4: the index an insert action hands to the host is the grid selection's
\* fromY / fromX (insert above / left) or toY / toX (insert below / right) when
\* a grid selection is current as the action runs, and the anchor cell's row /
\* column index otherwise.
C4_InsertIndex ==
  [][(last'.op \in InsertOps /\ ~last'.err) =>
       last'.index =
         IF IsGridSelection(selection)
         THEN IF last'.op = "insertRow"
              THEN (IF last'.after THEN selection.toY ELSE selection.fromY)
              ELSE (IF last'.after THEN selection.toX ELSE selection.fromX)
         ELSE IF last'.op = "insertRow"
              THEN RowIndexOf(tableCellNode.key, tableRows)
              ELSE ColumnIndexOf(tableCellNode.key, tableRows)]_vars

\* "insert row above" under a grid selection with the anchor cell in the
\* selection's last row: index 0 although the anchor is in row 1
C4_Witness ==
  /\ last.op = "insertRow"
  /\ ~last.err
  /\ last.grid
  /\ ~last.after
  /\ last.index = 0
  /\ last.cellIndex = 1

\* C5 as claimed: the count an insert action hands to the host is the row /
\* column count of the grid selection current as the action runs, 1 if none is.
C5_CountFromCurrentSelection ==
  [][(last'.op \in InsertOps /\ ~last'.err) =>
       last'.count =
         IF IsGridSelection(selection)
         THEN IF last'.op = "insertRow"
              THEN ShapeCounts(selection).rows
              ELSE ShapeCounts(selection).columns
         ELSE 1]_vars

\* C5 amended: the count an insert action hands to the host is the row /
\* column count of the grid selection that was current when the menu instance
\* opened, 1 if none was.
C5_CountFromOpenSelection ==
  [][(last'.op \in InsertOps /\ ~last'.err) =>
       last'.count =
         IF last'.op = "insertRow" THEN openCounts.rows ELSE openCounts.columns]_vars

\* two rows inserted although no grid selection is current as the action runs
C5_Witness ==
  /\ last.op = "insertRow"
  /\ ~last.err
  /\ ~last.grid
  /\ last.count = 2

\* C6: while one menu instance stays open its selectionCounts do not change;
\* they are what the selection's shape gave when the instance opened, (1,1)
\* if no grid selection was current then.
C6_CountsWrittenOnce ==
  [][/\ (MenuMounted /\ MenuMounted') => selectionCounts' = selectionCounts
     /\ (~MenuMounted /\ MenuMounted') =>
          selectionCounts' =
            IF IsGridSelection(selection)
            THEN [columns |-> selection.toX - selection.fromX + 1,
                  rows |-> selection.toY - selection.fromY + 1]
            ELSE [columns |-> 1, rows |-> 1]]_vars

\* an open menu that kept its counts through a selection change that ended
\* the grid selection it was opened under
C6_Witness ==
  /\ MenuMounted
  /\ last.op = "selectionChange"
  /\ last.wasOpen
  /\ ~IsGridSelection(selection)
  /\ selectionCounts.rows = 2

\* C7: after a menu action that did not throw the menu is closed, and a closed
\* menu opens only by a click on the trigger button.
C7_ClosedAfterAction ==
  [][/\ (last'.op \in MenuOps /\ ~last'.err) => ~isMenuOpen'
     /\ (~isMenuOpen /\ isMenuOpen') => last'.op = "clickTrigger"]_vars

\* a selection change after a committed menu action, the menu still closed
C7_Witness ==
  /\ mutations > 0
  /\ last.op = "selectionChange"
  /\ tableCellNode # NullNode
  /\ ~isMenuOpen

\* C8: after a menu action that did not throw, no grid highlight is left on a
\* table that still exists.
C8_HighlightCleared ==
  (last.op \in MenuOps /\ ~last.err /\ tableAttached) => ~highlight

\* C9: if the container's anchor cell changes while the menu is open, the menu
\* is closed afterwards.
C9_AnchorChangeCloses ==
  [][(isMenuOpen /\ tableCellNode' # tableCellNode) => ~isMenuOpen']_vars

\* the anchor moved to another cell while the menu was open
C9_Witness ==
  /\ last.op = "selectionChange"
  /\ last.wasOpen
  /\ last.cellChanged
  /\ tableCellNode # NullNode
  /\ ~isMenuOpen

\* C10 as claimed: after every update the anchor cell is null unless the
\* selection is a range selection inside the root with its anchor in a
\* rendered table cell.
C10_HiddenUnlessRangeInRoot ==
  (last.op \in UpdateOps /\ ~last.err) =>
    (tableCellNode # NullNode =>
       /\ IsRangeSelection(selection)
       /\ selection.inRoot
       /\ HasElement(selection.key, tableAttached, tableRows))

\* C10 amended: after every update the anchor cell is null if the selection is
\* null; for a range selection inside the root it is the cell holding the
\* selection's anchor if that is a rendered table cell and null if not; for any
\* other selection (grid, or range with the native anchor outside the root) it
\* is null if the document has no active element and unchanged otherwise.
C10_AnchorAfterUpdate ==
  [][(last'.op \in UpdateOps /\ ~last'.err) =>
       tableCellNode' =
         IF selection'.type = "null" THEN NullNode
         ELSE IF selection'.type = "range" /\ selection'.inRoot
         THEN IF tableAttached' /\ selection'.key \in KeysOfRows(tableRows')
              THEN nodeMap'[selection'.key]
              ELSE NullNode
         ELSE IF last'.active THEN tableCellNode ELSE NullNode]_vars

\* a grid selection was made and the anchor cell stayed
C10_Witness ==
  /\ last.op = "selectionChange"
  /\ IsGridSelection(selection)
  /\ last.active
  /\ tableCellNode # NullNode

\* C11: while the menu is open, a click that reaches the window's listener
\* with a target outside the trigger button and the dropdown closes the menu,
\* and a click inside the dropdown leaves it open (the listener does not run).
C11_OutsideClickCloses ==
  [][/\ (last'.op = "clickOutside" /\ isMenuOpen) => ~isMenuOpen'
     /\ (last'.op = "clickDropDown" /\ isMenuOpen) => isMenuOpen']_vars

\* an open menu closed by a click outside while the anchor cell stays
C11_Witness ==
  /\ last.op = "clickOutside"
  /\ last.wasOpen
  /\ ~isMenuOpen
  /\ tableCellNode # NullNode
  /\ menuCellNode = NullNode

\* C12: a row header toggle that did not throw inverts the ROW bit of every
\* cell in the row of the anchor cell and leaves the header state of every cell
\* of every other row, and the COLUMN bit of every cell, unchanged.
C12_RowToggle ==
  [][(last'.op = "toggleRowHeader" /\ ~last'.err) =>
       /\ tableRows' = tableRows
       /\ \A k \in KeysOfRows(tableRows) :
            LET b == nodeMap[k].headerState
                a == nodeMap'[k].headerState
            IN /\ a \in 0..3
               /\ ColumnBit(a) = ColumnBit(b)
               /\ IF RowIndexOf(k, tableRows) = RowIndexOf(tableCellNode.key, tableRows)
                  THEN RowBit(a) = 1 - RowBit(b)
                  ELSE a = b]_vars

\* the header row of the 2x2 table toggled: ROW cleared on both of its cells,
\* COLUMN kept on the corner cell, the second row as it was
C12_Witness ==
  /\ last.op = "toggleRowHeader"
  /\ ~last.err
  /\ last.index = 0
  /\ tableRows = InitRows
  /\ nodeMap[KeyName(1)].headerState = COLUMN
  /\ nodeMap[KeyName(2)].headerState = NO_STATUS
  /\ nodeMap[KeyName(3)].headerState = COLUMN
  /\ nodeMap[KeyName(4)].headerState = NO_STATUS

\* C13: a column header toggle on an attached anchor cell inverts the COLUMN
\* bit of the cell at the anchor cell's column index in every row and changes
\* no other header state; if some row has no cell at that index it fails with
\* 'Expected table cell to be inside of table row.'.
C13_ColumnToggle ==
  [][(/\ last'.op = "toggleColumnHeader"
      /\ IsAttachedIn(tableCellNode, tableAttached, tableRows)) =>
       LET index == ColumnIndexOf(tableCellNode.key, tableRows) IN
       IF \E r \in 1..Len(tableRows) : index < 0 \/ index >= Len(tableRows[r])
       THEN /\ last'.err
            /\ last'.msg = "Expected table cell to be inside of table row."
       ELSE /\ ~last'.err
            /\ tableRows' = tableRows
            /\ \A r \in 1..Len(tableRows) : \A c \in 1..Len(tableRows[r]) :
                 LET b == nodeMap[tableRows[r][c]].headerState
                     a == nodeMap'[tableRows[r][c]].headerState
                 IN IF c = index + 1
                    THEN /\ ColumnBit(a) = 1 - ColumnBit(b)
                         /\ RowBit(a) = RowBit(b)
                         /\ a \in 0..3
                    ELSE a = b]_vars

\* the toggle failed with the out-of-range error
C13_Witness ==
  /\ last.op = "toggleColumnHeader"
  /\ last.err
  /\ last.msg = OutOfRowMessage
  /\ tableAttached

\* C14: if a header toggle throws, or runs on a table with a row too short for
\* the anchor cell's column index, no cell's header state in the committed
\* document differs from before, the cells of rows the loop had passed included.
C14_NothingCommittedOnError ==
  [][(/\ last'.op \in {"toggleRowHeader", "toggleColumnHeader"}
      /\ \/ last'.err
         \/ /\ last'.op = "toggleColumnHeader"
            /\ IsAttachedIn(tableCellNode, tableAttached, tableRows)
            /\ \E r \in 1..Len(tableRows) :
                 ColumnIndexOf(tableCellNode.key, tableRows) >= Len(tableRows[r])) =>
       /\ tableRows' = tableRows
       /\ DOMAIN nodeMap' = DOMAIN nodeMap
       /\ \A k \in DOMAIN nodeMap : nodeMap'[k].headerState = nodeMap[k].headerState]_vars

\* the loop toggled the cell at index 1 of the first row, threw at the second
\* row, which has one cell, and the first row's cell is as it was
C14_Witness ==
  /\ last.op = "toggleColumnHeader"
  /\ last.err
  /\ last.index = 1
  /\ tableRows = RaggedRows
  /\ ToggleColumnCells(1, tableRows, 1, nodeMap).nm[KeyName(2)].headerState = BOTH
  /\ nodeMap[KeyName(2)].headerState = ROW

\* C15: after 'apply cell style' the border of an edge is the edge's draft if
\* one of the edge's inputs is non-empty and as before if all are empty, and
\* the corner radius is set iff the top edge's draft is non-empty.
C15_StyleOnlyNonEmptyEdges ==
  [][(last'.op = "styleCell" /\ ~last'.err) =>
       LET el == elements[menuCellNode.key]
           el2 == elements'[menuCellNode.key]
       IN /\ el2.borderTop =
               IF cellBorderTopWidth # ""
               THEN cellBorderTopWidth \o "px  "
               ELSE el.borderTop
          /\ el2.borderRadius =
               IF cellBorderTopWidth # "" THEN "10px" ELSE el.borderRadius
          /\ el2.borderBottom = el.borderBottom
          /\ el2.borderLeft = el.borderLeft
          /\ el2.borderRight = el.borderRight]_vars

\* the record of one method call on the cell: the latest snapshot before and
\* after it, and the value it returned
CellCallResult(op, arg, before, after, result) ==
  [op |-> op, arg |-> arg, before |-> before, after |-> after, result |-> result]

\* the record of a call that returns the snapshot it wrote
CellCall(op, arg, before, after) == CellCallResult(op, arg, before, after, after)

\* keep the last two calls
Remember(calls, c) ==
  IF Len(calls) < 2 THEN Append(calls, c) ELSE <<calls[2], c>>

\* C23 as claimed: the menu opens only by a click on the trigger button, and
\* closes only by a menu action, a click outside or a change of the anchor cell.
C23_OpenCloseEvents ==
  /\ (~last.wasOpen /\ isMenuOpen) => last.op = "clickTrigger"
  /\ (last.wasOpen /\ ~isMenuOpen) =>
       last.op \in MenuOps \/ last.op = "clickOutside" \/ last.cellChanged

\* C23 amended: the menu opens only by a click on the trigger button, and
\* closes only by a menu action, a click outside, a change of the anchor cell
\* or a click on the trigger button.
C23_OpenCloseEventsWithTrigger ==
  /\ (~last.wasOpen /\ isMenuOpen) => last.op = "clickTrigger"
  /\ (last.wasOpen /\ ~isMenuOpen) =>
       \/ last.op \in MenuOps
       \/ last.op = "clickOutside"
       \/ last.cellChanged
       \/ last.op = "clickTrigger"

\* a click on the trigger button closed the open menu
C23_Witness == last.op = "clickTrigger" /\ last.wasOpen /\ ~isMenuOpen

C26_OneListenerWhileOpen ==
  /\ listeners = IF MenuMounted THEN 1 ELSE 0
  /\ isMenuOpen <=> MenuMounted

\* a click on the trigger button mounted a menu instance, whose effect added
\* its listener
C26_Witness == last.op = "clickTrigger" /\ MenuMounted /\ listeners = 1

\* C27: 'Apply cell style' leaves every cell node as it was, the anchor cell
\* with its headerState, colSpan, width, backgroundColorStyle and borderStyle
\* included, and the rows too; of the rendered elements it changes at most the
\* inline border properties of the anchor cell's element.
C27_StyleLeavesCellNode ==
  [][(last'.op = "styleCell" /\ ~last'.err) =>
       /\ nodeMap' = nodeMap
       /\ tableRows' = tableRows
       /\ DOMAIN elements' = DOMAIN elements
       /\ \A k \in DOMAIN elements :
            /\ k # menuCellNode.key => elements'[k] = elements[k]
            /\ elements'[k].tag = elements[k].tag
            /\ elements'[k].colspan = elements[k].colspan
            /\ elements'[k].width = elements[k].width
            /\ elements'[k].backgroundColor = elements[k].backgroundColor
            /\ elements'[k].border = elements[k].border]_vars

\* 'Apply cell style' wrote the top border of the element of a header cell
C27_Witness ==
  /\ last.op = "styleCell"
  /\ ~last.err
  /\ \E k \in DOMAIN elements :
       /\ elements[k].borderTop # ""
       /\ nodeMap[k].headerState # NO_STATUS
       /\ nodeMap[k].borderStyle = Undefined

\* ------------------------------------------------------------------------
\* SpecShared: the open menu and transactions of other code on one document
\* ------------------------------------------------------------------------
\* most transactions of other code in one behaviour
MaxExternal == 1

\* the mutation listener of the menu: updateTableCellNode(getLatest()) when the
\* commit reports the menu's cell as 'updated'
MutationListener(current, updatedKeys, nm) ==
  IF current.key \in updatedKeys THEN nm[current.key] ELSE current

\* 'Remove' or 'Add' of a header button, read from node.__headerState
HeaderLabel(node, bit) ==
  IF BitAnd(node.headerState, bit) = bit THEN "Remove" ELSE "Add"

\* the selection after the table left the document: an anchor inside the table
\* moves to the rest of the root
SelectionWithoutTable(sel) ==
  IF IsGridSelection(sel) \/ (IsRangeSelection(sel) /\ sel.key # "none")
  THEN RangeSelection("none", TRUE)
  ELSE sel

\* the commit of a transaction of other code that left the document
\* (att, rows, nm) with selection sel and reported updatedKeys as 'updated',
\* while a menu instance is mounted: mutation listener, update listener, effects
ExternalCommit(info, att, rows, nm, sel, updatedKeys) ==
  \E activeElement \in BOOLEAN :
    /\ ReadsActiveElement(sel) \/ activeElement
    /\ LET cell == MoveMenu(sel, activeElement, tableCellNode, att, rows, nm)
           open == ContainerEffect(prevTableCellDOM, cell, isMenuOpen)
       IN /\ tableAttached' = att
          /\ tableRows' = rows
          /\ nodeMap' = nm
          /\ elements' = Reconcile(nodeMap, nm, elements)
          /\ selection' = sel
          /\ highlight' = (highlight /\ IsGridSelection(sel))
          /\ externals' = externals + 1
          /\ tableCellNode' = cell
          /\ prevTableCellDOM' = cell
          /\ isMenuOpen' = open
          /\ IF cell # NullNode /\ open
             THEN /\ menuCellNode' = MutationListener(menuCellNode, updatedKeys, nm)
                  /\ selectionCounts' = SelectionCountsKept(selectionCounts, sel)
                  /\ UNCHANGED <<cellBorderTopWidth, openCounts, listeners>>
             ELSE RenderMenu(cell, open, sel)
          /\ last' = [info EXCEPT !.active = activeElement,
                                  !.grid = IsGridSelection(sel),
                                  !.cellChanged = cell # tableCellNode]
          /\ UNCHANGED <<mutations, cellNode, cellCalls, pureVars>>

\* another transaction toggles the row header of a cell while the menu is open
ExternalToggleHeader ==
  /\ MenuMounted
  /\ externals < MaxExternal
  /\ tableAttached
  /\ \E k \in KeysOfRows(tableRows) :
       ExternalCommit(Step("externalToggle"), tableAttached, tableRows,
                      [nodeMap EXCEPT ![k] = ToggleHeaderStyle(@, ROW)],
                      selection, {k})

\* another transaction removes the table while the menu is open
ExternalRemoveTable ==
  /\ MenuMounted
  /\ externals < MaxExternal
  /\ tableAttached
  /\ ExternalCommit(Step("externalRemove"), FALSE, <<>>, NodeMapFor(<<>>, nodeMap),
                    SelectionWithoutTable(selection), {})

SharedInit ==
  /\ Init
  /\ tableRows = InitRows

SharedNext ==
  \/ SelectionChange
  \/ ClickTrigger
  \/ ExternalToggleHeader
  \/ ExternalRemoveTable
  \/ StyleCellOptions
  \/ MergeRightCell

SpecShared == SharedInit /\ [][SharedNext]_vars

\* C25: whenever the open menu shows its header buttons for an anchor cell that
\* is in the document, the 'Add' / 'Remove' labels it reads from its cell are
\* those of the latest committed snapshot of that cell.
C25_LabelsReadLatest ==
  (MenuMounted /\ IsAttachedIn(menuCellNode, tableAttached, tableRows)) =>
    /\ HeaderLabel(menuCellNode, ROW) = HeaderLabel(nodeMap[menuCellNode.key], ROW)
    /\ HeaderLabel(menuCellNode, COLUMN) = HeaderLabel(nodeMap[menuCellNode.key], COLUMN)

\* C28: 'Apply cell style' and 'merge right cell' chosen while the anchor cell
\* has no rendered element end in an error, and nothing is committed: the
\* document, the selection and every element are as before, the menu stays open.
C28_NullElementAborts ==
  [][(last'.op \in {"styleCell", "mergeRightCell"}
        /\ ~HasElement(menuCellNode.key, tableAttached, tableRows)) =>
       /\ last'.err
       /\ last'.msg = NullElementMessage
       /\ last'.commits = 0
       /\ UNCHANGED <<docVars, containerVars, menuVars>>]_vars

\* 'Apply cell style' was chosen in a menu whose cell had left the document
\* with its table, and threw
C28_Witness ==
  /\ last.op = "styleCell"
  /\ last.err
  /\ last.msg = NullElementMessage
  /\ MenuMounted
  /\ ~tableAttached
  /\ externals = 1

\* ------------------------------------------------------------------------
\* SpecCell
\* ------------------------------------------------------------------------
\* the arguments the setters are called with
Widths == {0, 100}
BackgroundColorStyles == {"red"}
BorderStyles == {"1px solid black"}

CellInit ==
  /\ \E h \in TableCellHeaderStates :
       cellNode = [CreateTableCellNode(h, 1, Undefined, Undefined, NoWidth) EXCEPT !.key = "c1"]
  /\ cellCalls = <<>>
  /\ PureIdle
  /\ externals = 0
  /\ MenuInit
  /\ tableRows = InitRows

\* a call on the cell that left out and is recorded as op(arg)
CellDone(op, arg, out) ==
  /\ cellNode' = out.self
  /\ cellCalls' = Remember(cellCalls, CellCallResult(op, arg, cellNode, out.self, out.result))
  /\ UNCHANGED <<docVars, containerVars, menuVars, last, pureVars, sharedVars>>

\* cell.toggleHeaderStyle(m) for any value of TableCellHeaderStates
CellToggleHeaderStyle ==
  \E m \in TableCellHeaderStates, isWritable \in BOOLEAN :
    LET out == ToggleHeaderStyleOf(cellNode, isWritable, m) IN
    /\ out.self.headerState <= MaxHeaderState
    /\ CellDone("toggleHeaderStyle", m, out)

\* cell.setHeaderStyles(h)
CellSetHeaderStyles ==
  \E h \in TableCellHeaderStates, isWritable \in BOOLEAN :
    CellDone("setHeaderStyles", h, SetHeaderStyles(cellNode, isWritable, h))

\* cell.setWidth(v)
CellSetWidth ==
  \E v \in Widths, isWritable \in BOOLEAN :
    CellDone("setWidth", v, SetWidth(cellNode, isWritable, v))

\* cell.setBg(v)
CellSetBg ==
  \E v \in BackgroundColorStyles, isWritable \in BOOLEAN :
    CellDone("setBg", v, SetBg(cellNode, isWritable, v))

\* cell.setBorderStyle(v)
CellSetBorderStyle ==
  \E v \in BorderStyles, isWritable \in BOOLEAN :
    CellDone("setBorderStyle", v, SetBorderStyle(cellNode, isWritable, v))

\* TableCellNode.clone(cell)
CellClone == CellDone("clone", 0, Outcome(cellNode, Clone(cellNode)))

\* cell.hasHeader()
CellHasHeader == CellDone("hasHeader", 0, Outcome(cellNode, HasHeader(cellNode)))

\* cell.createDOM(config)
CellCreateDOM == CellDone("createDOM", 0, Outcome(cellNode, CreateDOM(cellNode)))

CellNext ==
  \/ CellToggleHeaderStyle
  \/ CellSetHeaderStyles
  \/ CellSetWidth
  \/ CellSetBg
  \/ CellSetBorderStyle
  \/ CellClone
  \/ CellHasHeader
  \/ CellCreateDOM

SpecCell == CellInit /\ [][CellNext]_vars

\* ------------------------------------------------------------------------
\* Properties of the cell node (SpecCell)
\* ------------------------------------------------------------------------
IsToggle(c, m) == c.op = "toggleHeaderStyle" /\ c.arg = m

\* C1: for every header state b in {0,1,2,3} and every bit m in {ROW, COLUMN},
\* two successive toggleHeaderStyle(m) calls on a cell whose header state is b
\* leave the header state equal to b.
C1_ToggleTwiceRestores ==
  \A m \in {ROW, COLUMN} :
    (/\ Len(cellCalls) = 2
     /\ IsToggle(cellCalls[1], m)
     /\ IsToggle(cellCalls[2], m)
     /\ cellCalls[1].before.headerState \in 0..3)
    => cellNode.headerState = cellCalls[1].before.headerState

\* every start state and both bits are exercised by a double toggle
C1_Witness ==
  /\ Len(cellCalls) = 2
  /\ IsToggle(cellCalls[1], COLUMN)
  /\ IsToggle(cellCalls[2], COLUMN)
  /\ cellCalls[1].before.headerState = BOTH
  /\ cellCalls[2].before.headerState = ROW
  /\ cellNode.headerState = BOTH

\* C2: every cell's headerState is one of 0, 1, 2, 3 in every reachable state,
\* whatever TableCellHeaderStates value toggleHeaderStyle is called with.
C2_HeaderStateInRange == cellNode.headerState \in {0, 1, 2, 3}

\* C3: for b in {0,1,2,3}, toggleHeaderStyle(ROW) inverts the ROW bit and keeps
\* the COLUMN bit, and toggleHeaderStyle(COLUMN) inverts the COLUMN bit and
\* keeps the ROW bit.
C3_ToggleFlipsOnlyItsBit ==
  (Len(cellCalls) > 0 /\ cellCalls[Len(cellCalls)].before.headerState \in 0..3) =>
    LET c == cellCalls[Len(cellCalls)]
        b == c.before.headerState
        a == c.after.headerState
    IN /\ IsToggle(c, ROW) =>
            RowBit(a) = 1 - RowBit(b) /\ ColumnBit(a) = ColumnBit(b) /\ a \in 0..3
       /\ IsToggle(c, COLUMN) =>
            ColumnBit(a) = 1 - ColumnBit(b) /\ RowBit(a) = RowBit(b) /\ a \in 0..3

\* a ROW toggle that cleared the bit of a BOTH cell and left COLUMN set
C3_Witness ==
  /\ Len(cellCalls) > 0
  /\ IsToggle(cellCalls[Len(cellCalls)], ROW)
  /\ cellCalls[Len(cellCalls)].before.headerState = BOTH
  /\ cellNode.headerState = COLUMN

\* the last call made on the cell
LastCall == cellCalls[Len(cellCalls)]

\* C16: TableCellNode.clone(n) has the key of n, and after every call the
\* latest snapshot is under the key the cell had before it.
C16_CloneKeepsKey ==
  Len(cellCalls) > 0 =>
    /\ LastCall.op = "clone" => LastCall.result.key = LastCall.before.key
    /\ LastCall.after.key = LastCall.before.key

\* C17: TableCellNode.clone(n) has the headerState, colSpan, width,
\* backgroundColorStyle and borderStyle of n; toggleHeaderStyle leaves width,
\* backgroundColorStyle and borderStyle as they were; setWidth, setBg and
\* setBorderStyle each change no field but their own.
C17_CloneSharesFields ==
  Len(cellCalls) > 0 =>
    LET c == LastCall
        b == c.before
        a == c.after
    IN /\ c.op = "clone" =>
            /\ c.result.headerState = b.headerState
            /\ c.result.colSpan = b.colSpan
            /\ c.result.width = b.width
            /\ c.result.backgroundColorStyle = b.backgroundColorStyle
            /\ c.result.borderStyle = b.borderStyle
       /\ c.op = "toggleHeaderStyle" =>
            /\ a.colSpan = b.colSpan
            /\ a.width = b.width
            /\ a.backgroundColorStyle = b.backgroundColorStyle
            /\ a.borderStyle = b.borderStyle
       /\ c.op = "setWidth" =>
            /\ a.headerState = b.headerState
            /\ a.colSpan = b.colSpan
            /\ a.backgroundColorStyle = b.backgroundColorStyle
            /\ a.borderStyle = b.borderStyle
       /\ c.op = "setBg" =>
            /\ a.headerState = b.headerState
            /\ a.colSpan = b.colSpan
            /\ a.width = b.width
            /\ a.borderStyle = b.borderStyle
       /\ c.op = "setBorderStyle" =>
            /\ a.headerState = b.headerState
            /\ a.colSpan = b.colSpan
            /\ a.width = b.width
            /\ a.backgroundColorStyle = b.backgroundColorStyle

\* C18: setWidth(v), setBg(v) and setBorderStyle(v) return v, and the latest
\* snapshot then has v as its width, backgroundColorStyle or borderStyle.
C18_SettersReturnNewValue ==
  Len(cellCalls) > 0 =>
    LET c == LastCall IN
    /\ c.op = "setWidth" => c.result = c.arg /\ c.after.width = c.arg
    /\ c.op = "setBg" => c.result = c.arg /\ c.after.backgroundColorStyle = c.arg
    /\ c.op = "setBorderStyle" => c.result = c.arg /\ c.after.borderStyle = c.arg

\* C19: the element createDOM returns has an inline width iff the cell's
\* width is set, a background color equal to backgroundColorStyle iff that is
\* set, and a border equal to borderStyle iff that is set (set: a non-zero
\* number, a non-empty string).
C19_CreateDOMAppliesStyles ==
  (Len(cellCalls) > 0 /\ LastCall.op = "createDOM") =>
    LET n == LastCall.before
        el == LastCall.result
    IN /\ el.width # "" <=> TruthyWidth(n.width)
       /\ el.backgroundColor =
            IF TruthyString(n.backgroundColorStyle) THEN n.backgroundColorStyle ELSE ""
       /\ el.border = IF TruthyString(n.borderStyle) THEN n.borderStyle ELSE ""

\* C20: for each of the header states 0..3 hasHeader() is true iff the latest
\* header state is not 0, and the element's tag is 'th' if it is not 0 and 'td'
\* if it is.
C20_HasHeaderAndTag ==
  (Len(cellCalls) > 0 /\ LastCall.before.headerState \in 0..3) =>
    /\ LastCall.op = "hasHeader" =>
         (LastCall.result <=> LastCall.before.headerState # 0)
    /\ LastCall.op = "createDOM" =>
         LastCall.result.tag = IF LastCall.before.headerState # 0 THEN "th" ELSE "td"

\* hasHeader() answered true for a COLUMN cell, which was then rendered as th
C20_Witness ==
  /\ Len(cellCalls) = 2
  /\ cellCalls[1].op = "hasHeader"
  /\ cellCalls[1].before.headerState = COLUMN
  /\ cellCalls[1].result = TRUE
  /\ cellCalls[2].op = "createDOM"
  /\ cellCalls[2].result.tag = "th"

\* ------------------------------------------------------------------------
\* SpecPure: convertTableCellNodeElement and exportDOM applied to drawn inputs
\* ------------------------------------------------------------------------
\* most children a converted element has
MaxChildren == 3
\* most cells the parent row of an exported cell has
MaxColCount == 9

\* domNode.nodeName of a table cell element, in an HTML and in an XML document
NodeNames == {"TD", "TH", "td", "th"}

\* nodeName.toLowerCase()
ToLowerCase(nodeName) ==
  CASE nodeName = "TD" -> "td"
    [] nodeName = "TH" -> "th"
    [] OTHER -> nodeName

\* a converted child: an element node (a paragraph, a list), a text node or a
\* line break; getTextContent() of a line break is a newline
ChildNode(type) ==
  [type |-> type, text |-> IF type = "linebreak" THEN "\n" ELSE "a", children |-> <<>>]

ChildNodes == {ChildNode(t) : t \in {"element", "text", "linebreak"}}

\* $createParagraphNode() with child appended
ParagraphWith(child) == [type |-> "paragraph", text |-> "", children |-> <<child>>]

\* the dropped child: forChild returned null
Dropped == [type |-> "null", text |-> "", children |-> <<>>]

IsElementNode(n) == n.type \in {"element", "paragraph"}

IsLineBreakNode(n) == n.type = "linebreak"

\* a forChild that wraps every non-element child, line breaks too
ForChildWrapsAll(lexicalNode, parentIsTableCell) ==
  IF parentIsTableCell /\ ~IsElementNode(lexicalNode)
  THEN ParagraphWith(lexicalNode)
  ELSE lexicalNode

\* forChild(lexicalNode, parentLexicalNode) of the conversion output
ForChild(lexicalNode, parentIsTableCell) ==
  IF parentIsTableCell /\ ~IsElementNode(lexicalNode)
  THEN IF IsLineBreakNode(lexicalNode) /\ lexicalNode.text = "\n"
       THEN Dropped
       ELSE ParagraphWith(lexicalNode)
  ELSE lexicalNode

\* the children the host appends to the converted cell: forChild of each
\* converted child, the null results left out
RECURSIVE AppendConverted(_)
AppendConverted(children) ==
  IF children = <<>> THEN <<>>
  ELSE LET c == ForChild(Head(children), TRUE) IN
       (IF c = Dropped THEN <<>> ELSE <<c>>) \o AppendConverted(Tail(children))

\* convertTableCellNodeElement(domNode) and the host's use of its output
ConvertTableCellNodeElement(nodeName, children) ==
  [done |-> TRUE,
   node |-> CreateTableCellNode(IF ToLowerCase(nodeName) = "th" THEN ROW ELSE NO_STATUS,
                                1, Undefined, Undefined, NoWidth),
   children |-> AppendConverted(children)]

\* sequences over set of length at most n
RECURSIVE SeqsUpTo(_, _)
SeqsUpTo(set, n) ==
  IF n = 0 THEN {<<>>}
  ELSE SeqsUpTo(set, n - 1)
         \cup {Append(q, x) : q \in {p \in SeqsUpTo(set, n - 1) : Len(p) = n - 1}, x \in set}

ConvertInputs ==
  {[fn |-> "convert", nodeName |-> nn, children |-> ch] :
     nn \in NodeNames, ch \in SeqsUpTo(ChildNodes, MaxChildren)}

\* the constants of exportDOM
MaxWidth == 700

MinWidth == 90

ExportBorder == "1px solid black"

HeaderBackground == "#f2f3f5"

\* a width in pixels that is the quotient num / den
Px(num, den) == [num |-> num, den |-> den]

\* an export that uses the stored width whenever it is not undefined
ExportWidthIfDefined(width, colCount) ==
  IF width # NoWidth THEN Px(width, 1)
  ELSE IF MaxWidth >= MinWidth * colCount THEN Px(MaxWidth, colCount)
  ELSE Px(MinWidth, 1)

\* this.getWidth() || Math.max(90, maxWidth / colCount)
ExportWidth(width, colCount) ==
  IF TruthyWidth(width) THEN Px(width, 1)
  ELSE IF MaxWidth >= MinWidth * colCount THEN Px(MaxWidth, colCount)
  ELSE Px(MinWidth, 1)

\* exportDOM(editor): the styles it writes on the element of super.exportDOM
ExportDOM(node, colCount) ==
  [done |-> TRUE,
   tag |-> GetTag(node),
   border |-> ExportBorder,
   width |-> ExportWidth(node.width, colCount),
   verticalAlign |-> "top",
   textAlign |-> "start",
   backgroundColor |-> IF HasHeader(node) THEN HeaderBackground ELSE ""]

ExportInputs ==
  {[fn |-> "export",
    node |-> [CreateTableCellNode(h, 1, Undefined, Undefined, w) EXCEPT !.key = "c1"],
    colCount |-> n] :
     h \in TableCellHeaderStates, w \in {NoWidth} \cup Widths, n \in 1..MaxColCount}

\* the border styles setBorderStyle is called with before a reconciliation
UpdateBorderStyles == BorderStyles \cup {"2px dashed red"}

\* the calls on a cell between two reconciliations
UpdateCalls ==
  {[op |-> "setWidth", arg |-> w] : w \in Widths}
    \cup {[op |-> "setBg", arg |-> v] : v \in BackgroundColorStyles}
    \cup {[op |-> "setBorderStyle", arg |-> v] : v \in UpdateBorderStyles}
    \cup {[op |-> "toggleHeaderStyle", arg |-> m] : m \in {ROW, COLUMN}}

\* the latest snapshot after call on node
AfterCall(node, call) ==
  CASE call.op = "setWidth" -> SetWidth(node, FALSE, call.arg).self
    [] call.op = "setBg" -> SetBg(node, FALSE, call.arg).self
    [] call.op = "setBorderStyle" -> SetBorderStyle(node, FALSE, call.arg).self
    [] OTHER -> ToggleHeaderStyleOf(node, FALSE, call.arg).self

\* a committed cell, its rendered element (as created, or with the inline top
\* border of 'Apply cell style') and the call of the next update
UpdateInputs ==
  {[fn |-> "updateDOM",
    node |-> [CreateTableCellNode(h, 1, bg, b, w) EXCEPT !.key = "c1"],
    styled |-> st,
    call |-> c] :
     h \in TableCellHeaderStates, w \in {NoWidth} \cup Widths,
     bg \in {Undefined} \cup BackgroundColorStyles, b \in {Undefined} \cup BorderStyles,
     st \in BOOLEAN, c \in UpdateCalls}

\* the top border 'Apply cell style' writes for a top width of 2
StyledTop == BorderCellStyle("2", "", "")

\* the element of the committed cell of an update input
ElementBefore(in) ==
  IF in.styled
  THEN StyledElement(CreateDOM(in.node), StyledTop, "", "", "")
  ELSE CreateDOM(in.node)

\* the commit of one call on the cell: updateDOM(prevNode) of the new snapshot
\* and the element the host leaves
UpdatedDOM(in) ==
  LET after == AfterCall(in.node, in.call)
      k == in.node.key
  IN [done |-> TRUE,
      node |-> after,
      recreate |-> UpdateDOM(in.node, after),
      element |-> Reconcile([x \in {k} |-> in.node], [x \in {k} |-> after],
                            [x \in {k} |-> ElementBefore(in)])[k]]

PureInit ==
  /\ pureIn \in ConvertInputs \cup ExportInputs \cup UpdateInputs
  /\ pureOut = [done |-> FALSE]
  /\ cellNode = [CreateTableCellNode(NO_STATUS, 1, Undefined, Undefined, NoWidth) EXCEPT !.key = "c1"]
  /\ cellCalls = <<>>
  /\ externals = 0
  /\ MenuInit
  /\ tableRows = InitRows

PureUnchanged ==
  UNCHANGED <<docVars, containerVars, menuVars, last, cellNode, cellCalls, pureIn, sharedVars>>

\* the host converts a pasted td / th element
PureConvert ==
  /\ pureIn.fn = "convert"
  /\ ~pureOut.done
  /\ pureOut' = ConvertTableCellNodeElement(pureIn.nodeName, pureIn.children)
  /\ PureUnchanged

\* the host exports a cell
PureExport ==
  /\ pureIn.fn = "export"
  /\ ~pureOut.done
  /\ pureOut' = ExportDOM(pureIn.node, pureIn.colCount)
  /\ PureUnchanged

\* a call on a committed cell, then the commit
PureUpdateDOM ==
  /\ pureIn.fn = "updateDOM"
  /\ ~pureOut.done
  /\ pureOut' = UpdatedDOM(pureIn)
  /\ PureUnchanged

PureNext ==
  \/ PureConvert
  \/ PureExport
  \/ PureUpdateDOM

SpecPure == PureInit /\ [][PureNext]_vars

\* the children of the input that are not line breaks, in order
NotLineBreaks(children) == SelectSeq(children, LAMBDA c : c.type # "linebreak")

\* C21: converting a td / th element gives a cell with header state ROW for
\* th and NO_STATUS for td; its children are, in order, the converted children
\* that are not line breaks, an element child as it is and any other child as
\* the only child of a new paragraph; line breaks are dropped.
C21_ConvertedCell ==
  (pureOut.done /\ pureIn.fn = "convert") =>
    LET kept == NotLineBreaks(pureIn.children) IN
    /\ pureOut.node.headerState =
         IF pureIn.nodeName \in {"th", "TH"} THEN ROW ELSE NO_STATUS
    /\ Len(pureOut.children) = Len(kept)
    /\ \A i \in 1..Len(kept) :
         IF kept[i].type = "element"
         THEN pureOut.children[i] = kept[i]
         ELSE /\ pureOut.children[i].type = "paragraph"
              /\ pureOut.children[i].children = <<kept[i]>>

\* a th whose only child is a line break became a ROW header cell without
\* children
C21_Witness ==
  /\ pureOut.done
  /\ pureIn.fn = "convert"
  /\ pureIn.nodeName = "TH"
  /\ Len(pureIn.children) = 1
  /\ pureIn.children[1].type = "linebreak"
  /\ pureOut.node.headerState = ROW
  /\ pureOut.children = <<>>

\* the header shading and the border of an exported element
ExportShadingAndBorder ==
  /\ pureOut.border = "1px solid black"
  /\ pureOut.backgroundColor = "#f2f3f5" <=> pureIn.node.headerState # NO_STATUS

\* the exported width of a cell without a usable stored width: max(90, 700 / n)
ExportFallbackWidth ==
  LET n == pureIn.colCount
      w == pureOut.width
  IN /\ w.num >= 90 * w.den
     /\ n <= 7 => w = Px(700, n)
     /\ n >= 8 => w = Px(90, 1)

\* C22 as claimed: the exported width is the stored width whenever a width is
\* stored, and max(90, 700 / n) otherwise, never below 90, 700 / n for n <= 7
\* and 90 for n >= 8; the border is '1px solid black' and the header shading
\* is applied iff the cell has a header.
C22_ExportWidthIfStored ==
  (pureOut.done /\ pureIn.fn = "export") =>
    /\ ExportShadingAndBorder
    /\ IF pureIn.node.width # NoWidth
       THEN pureOut.width = Px(pureIn.node.width, 1)
       ELSE ExportFallbackWidth

\* C22 amended: the exported width is the stored width when that is a number
\* other than 0, and max(90, 700 / n) when no width is stored or the stored
\* width is 0; the rest as claimed.
C22_ExportWidthIfNonZero ==
  (pureOut.done /\ pureIn.fn = "export") =>
    /\ ExportShadingAndBorder
    /\ IF pureIn.node.width # NoWidth /\ pureIn.node.width # 0
       THEN pureOut.width = Px(pureIn.node.width, 1)
       ELSE ExportFallbackWidth

\* a cell with stored width 0 in a row of 8 cells was exported 90 pixels wide
C22_Witness ==
  /\ pureOut.done
  /\ pureIn.fn = "export"
  /\ pureIn.node.width = 0
  /\ pureIn.colCount = 8
  /\ pureOut.width = Px(90, 1)

\* C29: updateDOM asks for a new element iff the previous and the current
\* snapshot differ in headerState or in width; after a setBg or a
\* setBorderStyle it never does, and the rendered element keeps the inline
\* background and borders it had.
C29_RecreatedIffHeaderOrWidth ==
  (pureOut.done /\ pureIn.fn = "updateDOM") =>
    /\ pureOut.recreate <=>
         \/ pureIn.node.headerState # pureOut.node.headerState
         \/ pureIn.node.width # pureOut.node.width
    /\ pureIn.call.op \in {"setBg", "setBorderStyle"} =>
         /\ ~pureOut.recreate
         /\ pureOut.element = ElementBefore(pureIn)

\* setBorderStyle changed the border style of a cell whose element has an
\* inline top border, and the element was kept
C29_Witness ==
  /\ pureOut.done
  /\ pureIn.fn = "updateDOM"
  /\ pureIn.call.op = "setBorderStyle"
  /\ pureIn.node.borderStyle # pureOut.node.borderStyle
  /\ pureIn.styled
  /\ pureOut.element.borderTop = StyledTop
  /\ pureOut.element.border # pureOut.node.borderStyle
====
